---- MODULE Spec2Model ----
(***************************************************************************)
(* A model of kasper's TopicProcessor (topic_processor.go): the            *)
(* coordinator loop with its four event sources, processConsumerMessage    *)
(* with its three waits, the fan-in forwarders, the asynchronous producer  *)
(* with its bounded input and success streams, and Shutdown.               *)
(*                                                                         *)
(* partition_processor.go is not part of the sources at hand: the          *)
(* operators pp... below follow section 4.2 of the specification.          *)
(***************************************************************************)
EXTENDS Integers, Sequences, FiniteSets, TLC

\* ------------------------------------------------------------- bounds
\* Messages each consumer stream can deliver: offsets 0 .. MaxMsgs-1.
MaxMsgs == 2
\* The user's Process emits between 0 and MaxOut outputs for one input.
MaxOut == 2
\* config.MaxInFlightMessageGroups of the modelled container.
MaxInFlightMessageGroups == 2
\* Buffer of the producer's input stream and of its success stream.
InputCap == 1
SuccessCap == 1
\* config.ContainerCount
ContainerCount == 2
\* What DefaultConfig() sets MaxInFlightMessageGroups to.
DefaultMaxInFlightMessageGroups == 5000

\* The partitions assigned to the container, and the topics it may consume.
Partitions == {0, 1}
TopicIds == {1, 2}
NoOffset == 0 - 1

Offsets == 0 .. (MaxMsgs - 1)
\* An input message is <<topic, partition, offset>>.
AllMsgs == TopicIds \X Partitions \X Offsets
AllStreams == TopicIds \X Partitions
NoMsg == <<0, 0, NoOffset>>

VARIABLES
    inputTopics,          \* tp.inputTopics
    autoMark,             \* tp.config.markOffsetsAutomatically()
    markOffsetsHook,      \* tp.config.Config.MarkOffsetsHook: "set" or "nil"
    setup,                \* NewTopicProcessor: its inputs, its position, what it created
    proc,                 \* the process: "running", "fatal" (log.Fatal) or "panic"
    prodErrors,           \* producer.Errors(): failed, not yet received by the drainer
    pc,                   \* where the coordinator task stands
    cur,                  \* consumerMessage of the running processConsumerMessage
    producerMessages,     \* outputs of cur not yet written to producer.Input()
    mustCommit,           \* second result of pp.process(cur)
    partitionProcessors,  \* tp.partitionProcessors: partition -> its state
    consumerNext,         \* per consumer stream: the next offset it delivers
    consumerClosed,       \* per consumer stream: closed by pp.onShutdown
    fwd,                  \* per fan-in forwarder: where it stands
    fwdMsg,               \* per fan-in forwarder: the message it holds
    prodInput,            \* written to producer.Input(), not yet acknowledged by the log
    prodSuccess,          \* producer.Successes(): acknowledged, not yet received
    shutdownChan,         \* tp.shutdown is closed
    syncClosed,           \* consumerSyncChan is closed
    tickerStopped,        \* markOffsetsTicker.Stop() was called
    producerClosed,       \* tp.producer.Close() returned
    clientClosed,         \* tp.client.Close() returned
    drainer,              \* the task ranging over producer.Errors()
    shutdownReturned,     \* Shutdown() returned
    processed,            \* history: per partition, the <<topic, offset>> passed to Process, in order
    unacked,              \* history: message -> its outputs whose ack was not yet routed
    curOut,               \* history: the outputs pp.process(cur) returned
    submittedCur,         \* history: the outputs of cur written to producer.Input(), in order
    failedOutputs,        \* history: the outputs whose send failed
    hooks                 \* history: MarkOffsetsHook calls of the coordinator's last handler step

vars == <<inputTopics, autoMark, pc, cur, producerMessages, mustCommit,
          partitionProcessors, consumerNext, consumerClosed, fwd, fwdMsg,
          prodInput, prodSuccess, shutdownChan, syncClosed, tickerStopped,
          producerClosed, clientClosed, drainer, shutdownReturned,
          processed, unacked, curOut, submittedCur,
          markOffsetsHook, setup, proc, prodErrors, failedOutputs, hooks>>

coordVars == <<pc, cur, producerMessages, mustCommit>>
consumerVars == <<consumerNext, consumerClosed, fwd, fwdMsg>>
producerVars == <<prodInput, prodSuccess>>
shutdownVars == <<shutdownChan, syncClosed, tickerStopped, producerClosed,
                  clientClosed, drainer, shutdownReturned>>
historyVars == <<processed, unacked, curOut, submittedCur>>
configVars == <<inputTopics, autoMark, markOffsetsHook>>
faultVars == <<proc, prodErrors, failedOutputs>>

\* ------------------------------------------------------------ helpers
MaxOf(S) == CHOOSE x \in S : \A y \in S : y <= x

RECURSIVE SumOver(_, _)
SumOver(f, S) ==
    IF S = {} THEN 0
    ELSE LET x == CHOOSE y \in S : TRUE IN f[x] + SumOver(f, S \ {x})

\* The streams consumerMessageChannels() returns: one per input topic and
\* assigned partition.
Streams == inputTopics \X Partitions

\* An output message: its back-reference (Metadata) and its place among the
\* outputs of that input.
Output(m, i) == [src |-> m, idx |-> i]
Outputs(m, k) == [i \in 1 .. k |-> Output(m, i)]

\* ------------------------------------------------- partition processor
\* The state of one partition processor: the queue of in-flight groups in
\* insertion order, the in-flight group count, the commit watermark and the
\* offset last marked on the offset manager.
NewPartitionState ==
    [groups |-> <<>>, inFlightCount |-> 0,
     watermark |-> NoOffset, marked |-> NoOffset]

NewGroup(m, k) == [topic |-> m[1], offset |-> m[3], outstanding |-> k]

\* Length of the longest prefix of the queue whose groups are ack-complete.
CompletePrefixLen(q) ==
    MaxOf({n \in 0 .. Len(q) : \A i \in 1 .. n : q[i].outstanding = 0})

\* The watermark after the queue changed: the offset of the last group of
\* the ack-complete prefix, or the old one when that prefix is empty.
AdvanceWatermark(q, w) ==
    IF CompletePrefixLen(q) > 0 THEN q[CompletePrefixLen(q)].offset ELSE w

\* The in-flight groups of the whole container.
TotalInFlight(pps) ==
    SumOver([q \in Partitions |-> pps[q].inFlightCount], Partitions)

\* pp.isReadyForMessage(m): one more in-flight group stays within the cap.
ppIsReadyForMessage(pps, p) ==
    TotalInFlight(pps) + 1 <= MaxInFlightMessageGroups

\* pp.process(m) with a user Process that emits k outputs: the new group.
ppProcess(s, m, k) ==
    LET q == Append(s.groups, NewGroup(m, k))
    IN  [s EXCEPT !.groups = q, !.watermark = AdvanceWatermark(q, @)]

\* pp.onProcessCompleted()
ppOnProcessCompleted(s) == [s EXCEPT !.inFlightCount = @ + 1]

\* pp.onProducerAck(pm): one ack less outstanding for the group of pm.Metadata.
ppOnProducerAck(s, pm) ==
    LET q == [i \in 1 .. Len(s.groups) |->
                IF /\ s.groups[i].topic = pm.src[1]
                   /\ s.groups[i].offset = pm.src[3]
                THEN [s.groups[i] EXCEPT !.outstanding = @ - 1]
                ELSE s.groups[i]]
    IN  [s EXCEPT !.groups = q, !.watermark = AdvanceWatermark(q, @)]

\* pp.isReadyToCommit(): every in-flight group is ack-complete.
ppIsReadyToCommit(s) ==
    \A i \in 1 .. Len(s.groups) : s.groups[i].outstanding = 0

\* Marking the watermark removes the committable groups.
ppMark(s) ==
    LET n == CompletePrefixLen(s.groups)
    IN  [s EXCEPT !.marked = s.watermark,
                  !.groups = SubSeq(@, n + 1, Len(@)),
                  !.inFlightCount = @ - n]

\* pp.commit()
ppCommit(s) == ppMark(s)

\* pp.onMarkOffsetsTick()
ppOnMarkOffsetsTick(s) == ppMark(s)

\* ------------------------------------------------------- configuration
\* A default configuration without a commit hook.
DefaultConfigNoHook ==
    [MarkOffsetsHook |-> "nil", RequiredAcks |-> "WaitForAll",
     MaxInFlightMessageGroups |-> DefaultMaxInFlightMessageGroups]

\* DefaultConfig(), as TestDefaultConfig observes it.
DefaultConfig ==
    [MarkOffsetsHook |-> "set", RequiredAcks |-> "WaitForAll",
     MaxInFlightMessageGroups |-> DefaultMaxInFlightMessageGroups]

\* -------------------------------------------------- NewTopicProcessor
\* What NewTopicProcessor is called with and what its collaborators answer:
\* the container id, the topics TopicSerdes has an entry for, the partitions
\* partitionsForContainer returns, the partitions PartitionToContainerID has
\* an entry for, and whether creating the client, the offset manager and the
\* producer succeeds.
SetupArgs ==
    [containerID : (0 - 1) .. ContainerCount,
     serdes : SUBSET TopicIds,
     assigned : SUBSET Partitions,
     mapping : SUBSET Partitions,
     clientOk : BOOLEAN, offsetManagerOk : BOOLEAN, producerOk : BOOLEAN]

\* NewTopicProcessor at its first statement.
SetupStart(a) ==
    [args |-> a, step |-> "containerID", client |-> FALSE,
     offsetManager |-> FALSE, producer |-> FALSE, processors |-> {}]

\* NewTopicProcessor after it returned the TopicProcessor of the modelled
\* container.
Constructed(topics) ==
    [args |-> [containerID |-> 0, serdes |-> topics, assigned |-> Partitions,
               mapping |-> Partitions, clientOk |-> TRUE,
               offsetManagerOk |-> TRUE, producerOk |-> TRUE],
     step |-> "returned", client |-> TRUE, offsetManager |-> TRUE,
     producer |-> TRUE, processors |-> Partitions]

\* log.Fatal, log.Fatalf: the process exits.
Fatal(s) == [s EXCEPT !.step = "fatal"]

\* A variant of the container id test that admits ContainerCount itself.
ContainerIDValidInclusive(id) == ~(id < 0 \/ id > ContainerCount)

\* The container id test.
ContainerIDValid(id) == ~(id < 0 \/ id >= ContainerCount)

\* ---------------------------------------------------------------- Init
\* The state of a TopicProcessor before Start, for a container that consumes
\* `topics` and whose consumer streams start at the offsets `start`.
InitState(topics, start) ==
    /\ inputTopics = topics
    /\ autoMark \in BOOLEAN
    /\ markOffsetsHook = DefaultConfig.MarkOffsetsHook
    /\ proc = "running"
    /\ prodErrors = {}
    /\ failedOutputs = {}
    /\ hooks = 0
    /\ pc = "idle"
    /\ cur = NoMsg
    /\ producerMessages = <<>>
    /\ mustCommit = FALSE
    /\ partitionProcessors = [p \in Partitions |-> NewPartitionState]
    /\ consumerNext = start
    /\ consumerClosed = [s \in AllStreams |-> FALSE]
    /\ fwd = [s \in AllStreams |-> "none"]
    /\ fwdMsg = [s \in AllStreams |-> NoMsg]
    /\ prodInput = {}
    /\ prodSuccess = <<>>
    /\ shutdownChan = FALSE
    /\ syncClosed = FALSE
    /\ tickerStopped = FALSE
    /\ producerClosed = FALSE
    /\ clientClosed = FALSE
    /\ drainer = "none"
    /\ shutdownReturned = FALSE
    /\ processed = [p \in Partitions |-> <<>>]
    /\ unacked = [m \in AllMsgs |-> 0]
    /\ curOut = <<>>
    /\ submittedCur = <<>>

\* The state after NewTopicProcessor returned.
InitWith(topics, start) ==
    /\ InitState(topics, start)
    /\ setup = Constructed(topics)

Init == InitWith({1}, [s \in AllStreams |-> 0])

\* ------------------------------------------------------------- actions
\* Start() and the head of runLoop: the forwarders and the error drainer
\* are launched, the coordinator reaches its select.
Start ==
    /\ pc = "idle"
    /\ pc' = "select"
    /\ fwd' = [s \in AllStreams |-> IF s \in Streams THEN "recv" ELSE "none"]
    /\ drainer' = "running"
    /\ UNCHANGED <<cur, producerMessages, mustCommit, partitionProcessors,
                   consumerNext, consumerClosed, fwdMsg, producerVars,
                   shutdownChan, syncClosed, tickerStopped, producerClosed,
                   clientClosed, shutdownReturned, historyVars,
                   configVars, faultVars, setup,
                   hooks>>

\* A variant in which the forwarder hands the message to the partition
\* processor itself instead of sending it to the coordinator.
FwdRecvProcesses(s) ==
    /\ fwd[s] = "recv"
    /\ ~consumerClosed[s]
    /\ consumerNext[s] < MaxMsgs
    /\ consumerNext' = [consumerNext EXCEPT ![s] = @ + 1]
    /\ partitionProcessors' =
         [partitionProcessors EXCEPT
            ![s[2]] = ppOnProcessCompleted(
                        ppProcess(@, <<s[1], s[2], consumerNext[s]>>, 0))]
    /\ UNCHANGED <<coordVars, consumerClosed, fwd, fwdMsg, producerVars,
                   shutdownVars, historyVars, configVars, faultVars, setup,
                   hooks>>

\* A forwarder receives the next message of its consumer stream.
FwdRecv(s) ==
    /\ fwd[s] = "recv"
    /\ ~consumerClosed[s]
    /\ consumerNext[s] < MaxMsgs
    /\ fwdMsg' = [fwdMsg EXCEPT ![s] = <<s[1], s[2], consumerNext[s]>>]
    /\ consumerNext' = [consumerNext EXCEPT ![s] = @ + 1]
    /\ fwd' = [fwd EXCEPT ![s] = "send"]
    /\ UNCHANGED <<coordVars, partitionProcessors, consumerClosed,
                   producerVars, shutdownVars, historyVars, configVars, faultVars, setup,
                   hooks>>

\* Its consumer stream was closed: the range loop ends.
FwdEnd(s) ==
    /\ fwd[s] = "recv"
    /\ consumerClosed[s]
    /\ fwd' = [fwd EXCEPT ![s] = "exit"]
    /\ UNCHANGED <<coordVars, partitionProcessors, consumerNext,
                   consumerClosed, fwdMsg, producerVars, shutdownVars,
                   historyVars, configVars, faultVars, setup,
                   hooks>>

\* Blocked on its send, the forwarder sees the synchroniser closed.
FwdSync(s) ==
    /\ fwd[s] = "send"
    /\ syncClosed
    /\ fwd' = [fwd EXCEPT ![s] = "exit"]
    /\ fwdMsg' = [fwdMsg EXCEPT ![s] = NoMsg]
    /\ UNCHANGED <<coordVars, partitionProcessors, consumerNext,
                   consumerClosed, producerVars, shutdownVars, historyVars,
                   configVars, faultVars, setup,
                   hooks>>

\* ---------------------------------------------------- the coordinator
\* A variant that hands every message to the processor of partition 0.
ProcessorForFirst(m) == 0

\* The partition processor a consumer message is handed to.
ProcessorFor(m) == m[2]

\* A variant that routes every ack received inside processConsumerMessage to
\* the processor of the message being processed.
AckTargetLocal(pm) == IF cur # NoMsg THEN cur[2] ELSE pm.src[2]

\* The partition processor an ack is routed to: the one of the partition
\* of the IncomingMessage in the ack's Metadata.
AckTarget(pm) == pm.src[2]

\* A variant that hands the ack to every partition processor.
OnProducerAckAll(pps, pm) ==
    [p \in Partitions |-> ppOnProducerAck(pps[p], pm)]

\* tp.onProducerAck(pm, more) with more = true.
OnProducerAck(pps, pm) ==
    [pps EXCEPT ![AckTarget(pm)] = ppOnProducerAck(@, pm)]

\* tp.onProducerAck(pm, more): a receive from the closed success stream
\* (more = false) returns at once.
OnProducerAckMore(pps, pm, more) ==
    IF ~more THEN pps ELSE OnProducerAck(pps, pm)

\* tp.config.Config.MarkOffsetsHook() on a configuration without a hook is a
\* call of a nil function.
HookMissing == markOffsetsHook = "nil"

\* A variant that processes without testing.
ReadyTestSkipped == TRUE

\* The test that opens processConsumerMessage's loop.
ReadyTest == ppIsReadyForMessage(partitionProcessors, ProcessorFor(cur))

\* A variant that commits without waiting.
CommitTestSkipped == TRUE

\* The test of the mustCommit loop.
CommitTest == ppIsReadyToCommit(partitionProcessors[ProcessorFor(cur)])

\* A variant in which the forwarder does not go on to its next message after
\* a send.
RecvConsumerResend(s) ==
    /\ pc = "select"
    /\ fwd[s] = "send"
    /\ cur' = fwdMsg[s]
    /\ pc' = "ready"
    /\ hooks' = 0
    /\ UNCHANGED <<producerMessages, mustCommit, partitionProcessors,
                   consumerVars, producerVars, shutdownVars, historyVars,
                   configVars, faultVars, setup>>

\* case consumerMessage := <-consumerChan: the rendezvous with a forwarder
\* blocked on its send; processConsumerMessage begins.
RecvConsumer(s) ==
    /\ pc = "select"
    /\ fwd[s] = "send"
    /\ cur' = fwdMsg[s]
    /\ fwd' = [fwd EXCEPT ![s] = "recv"]
    /\ fwdMsg' = [fwdMsg EXCEPT ![s] = NoMsg]
    /\ pc' = "ready"
    /\ hooks' = 0
    /\ UNCHANGED <<producerMessages, mustCommit, partitionProcessors,
                   consumerNext, consumerClosed, producerVars, shutdownVars,
                   historyVars, configVars, faultVars, setup>>

\* pp.process(cur): the user's Process emits k outputs and asks for a
\* commit or not.
ProcessMessage(k, mc) ==
    /\ pc = "ready"
    /\ ReadyTest
    /\ partitionProcessors' =
         [partitionProcessors EXCEPT ![ProcessorFor(cur)] = ppProcess(@, cur, k)]
    /\ producerMessages' = Outputs(cur, k)
    /\ mustCommit' = mc
    /\ pc' = "submit"
    /\ processed' = [processed EXCEPT ![cur[2]] = Append(@, <<cur[1], cur[3]>>)]
    /\ unacked' = [unacked EXCEPT ![cur] = @ + k]
    /\ curOut' = Outputs(cur, k)
    /\ submittedCur' = <<>>
    /\ hooks' = 0
    /\ UNCHANGED <<cur, consumerVars, producerVars, shutdownVars, configVars, faultVars, setup>>

\* case tp.producer.Input() <- producerMessages[0]
SubmitOutput ==
    /\ pc = "submit"
    /\ producerMessages # <<>>
    /\ Cardinality(prodInput) < InputCap
    /\ prodInput' = prodInput \cup {Head(producerMessages)}
    /\ submittedCur' = Append(submittedCur, Head(producerMessages))
    /\ producerMessages' = Tail(producerMessages)
    /\ hooks' = 0
    /\ UNCHANGED <<pc, cur, mustCommit, partitionProcessors, consumerVars,
                   prodSuccess, shutdownVars, processed, unacked, curOut,
                   configVars, faultVars, setup>>

\* pp.onProcessCompleted(), then the mustCommit loop or the return.
ProcessCompleted ==
    /\ pc = "submit"
    /\ producerMessages = <<>>
    /\ partitionProcessors' =
         [partitionProcessors EXCEPT ![ProcessorFor(cur)] = ppOnProcessCompleted(@)]
    /\ pc' = IF mustCommit THEN "commitWait" ELSE "select"
    /\ cur' = IF mustCommit THEN cur ELSE NoMsg
    /\ curOut' = <<>>
    /\ submittedCur' = <<>>
    /\ hooks' = 0
    /\ UNCHANGED <<producerMessages, mustCommit, consumerVars, producerVars,
                   shutdownVars, processed, unacked, configVars, faultVars, setup>>

\* A variant of the mustCommit loop that commits without invoking the hook.
CommitNoHook ==
    /\ pc = "commitWait"
    /\ CommitTest
    /\ hooks' = 0
    /\ partitionProcessors' =
         [partitionProcessors EXCEPT ![ProcessorFor(cur)] = ppCommit(@)]
    /\ pc' = "select"
    /\ cur' = NoMsg
    /\ mustCommit' = FALSE
    /\ UNCHANGED <<producerMessages, consumerVars, producerVars, shutdownVars,
                   historyVars, configVars, faultVars, setup>>

\* The mustCommit loop finds the partition ready: hook, pp.commit(), return.
Commit ==
    /\ pc = "commitWait"
    /\ CommitTest
    /\ hooks' = 1
    /\ IF HookMissing
       THEN /\ proc' = "panic"
            /\ UNCHANGED <<partitionProcessors, pc, cur, mustCommit>>
       ELSE /\ partitionProcessors' =
                 [partitionProcessors EXCEPT ![ProcessorFor(cur)] = ppCommit(@)]
            /\ pc' = "select"
            /\ cur' = NoMsg
            /\ mustCommit' = FALSE
            /\ proc' = proc
    /\ UNCHANGED <<producerMessages, consumerVars, producerVars, shutdownVars,
                   historyVars, configVars, prodErrors, failedOutputs, setup>>

\* msg, more := <-tp.producer.Successes(); tp.onProducerAck(msg, more)
ReceiveAck ==
    /\ prodSuccess # <<>>
    /\ partitionProcessors' =
         OnProducerAckMore(partitionProcessors, Head(prodSuccess), TRUE)
    /\ unacked' = [unacked EXCEPT ![Head(prodSuccess).src] = @ - 1]
    /\ prodSuccess' = Tail(prodSuccess)
    /\ hooks' = 0
    /\ UNCHANGED <<coordVars, consumerVars, prodInput, shutdownVars,
                   processed, curOut, submittedCur, configVars, faultVars, setup>>

\* The four places where the coordinator receives from Successes().
AckInSelect == pc = "select" /\ ReceiveAck
AckInReadyWait == pc = "ready" /\ ~ReadyTest /\ ReceiveAck

\* A variant of the submission loop that receives acks without routing them.
AckInSubmitDropped ==
    /\ pc = "submit"
    /\ producerMessages # <<>>
    /\ prodSuccess # <<>>
    /\ prodSuccess' = Tail(prodSuccess)
    /\ hooks' = 0
    /\ UNCHANGED <<coordVars, partitionProcessors, consumerVars, prodInput,
                   shutdownVars, historyVars, configVars, faultVars, setup>>

\* A variant of the submission loop that advances producerMessages after
\* either case of its select.
AckInSubmitAdvances ==
    /\ pc = "submit"
    /\ producerMessages # <<>>
    /\ prodSuccess # <<>>
    /\ partitionProcessors' = OnProducerAck(partitionProcessors, Head(prodSuccess))
    /\ unacked' = [unacked EXCEPT ![Head(prodSuccess).src] = @ - 1]
    /\ prodSuccess' = Tail(prodSuccess)
    /\ producerMessages' = Tail(producerMessages)
    /\ hooks' = 0
    /\ UNCHANGED <<pc, cur, mustCommit, consumerVars, prodInput, shutdownVars,
                   processed, curOut, submittedCur, configVars, faultVars, setup>>

AckInSubmit == pc = "submit" /\ producerMessages # <<>> /\ ReceiveAck
AckInCommitWait == pc = "commitWait" /\ ~CommitTest /\ ReceiveAck

\* A variant in which the submission loop's select has the tick case too.
OnMarkOffsetsTickInSubmit ==
    /\ pc \in {"select", "submit"}
    /\ autoMark
    /\ ~tickerStopped
    /\ hooks' = 1
    /\ partitionProcessors' =
         [p \in Partitions |-> ppOnMarkOffsetsTick(partitionProcessors[p])]
    /\ UNCHANGED <<coordVars, consumerVars, producerVars, shutdownVars,
                   historyVars, configVars, faultVars, setup>>

\* A variant in which the ticker is created in manual mode as well.
OnMarkOffsetsTickAlways ==
    /\ pc = "select"
    /\ ~tickerStopped
    /\ hooks' = 1
    /\ partitionProcessors' =
         [p \in Partitions |-> ppOnMarkOffsetsTick(partitionProcessors[p])]
    /\ UNCHANGED <<coordVars, consumerVars, producerVars, shutdownVars,
                   historyVars, configVars, faultVars, setup>>

\* case <-markOffsetsTickerChan: tp.onMarkOffsetsTick(). In manual mode the
\* channel never delivers.
OnMarkOffsetsTick ==
    /\ pc = "select"
    /\ autoMark
    /\ ~tickerStopped
    /\ hooks' = 1
    /\ IF HookMissing
       THEN /\ proc' = "panic"
            /\ UNCHANGED partitionProcessors
       ELSE /\ partitionProcessors' =
                 [p \in Partitions |-> ppOnMarkOffsetsTick(partitionProcessors[p])]
            /\ proc' = proc
    /\ UNCHANGED <<coordVars, consumerVars, producerVars, shutdownVars,
                   historyVars, configVars, prodErrors, failedOutputs, setup>>

\* A variant that enters onShutdown without closing the synchroniser.
ShutdownCloseSyncSkipped ==
    /\ pc = "select"
    /\ shutdownChan
    /\ pc' = "stopTicker"
    /\ hooks' = 0
    /\ UNCHANGED <<cur, producerMessages, mustCommit, partitionProcessors,
                   consumerVars, producerVars, shutdownVars, historyVars,
                   configVars, faultVars, setup>>

\* case <-tp.shutdown: close(consumerSyncChan), then tp.onShutdown(ticker).
ShutdownCloseSync ==
    /\ pc = "select"
    /\ shutdownChan
    /\ syncClosed' = TRUE
    /\ pc' = "stopTicker"
    /\ hooks' = 0
    /\ UNCHANGED <<cur, producerMessages, mustCommit, partitionProcessors,
                   consumerVars, producerVars, shutdownChan, tickerStopped,
                   producerClosed, clientClosed, drainer, shutdownReturned,
                   historyVars, configVars, faultVars, setup>>

\* onShutdown: if ticker != nil { ticker.Stop() }
ShutdownStopTicker ==
    /\ pc = "stopTicker"
    /\ tickerStopped' = autoMark
    /\ pc' = "quiesce"
    /\ hooks' = 0
    /\ UNCHANGED <<cur, producerMessages, mustCommit, partitionProcessors,
                   consumerVars, producerVars, shutdownChan, syncClosed,
                   producerClosed, clientClosed, drainer, shutdownReturned,
                   historyVars, configVars, faultVars, setup>>

\* onShutdown: pp.onShutdown() for every partition processor; each closes
\* its consumer streams and marks nothing.
ShutdownQuiesce ==
    /\ pc = "quiesce"
    /\ consumerClosed' = [s \in AllStreams |-> TRUE]
    /\ pc' = "closeProducer"
    /\ hooks' = 0
    /\ UNCHANGED <<cur, producerMessages, mustCommit, partitionProcessors,
                   consumerNext, fwd, fwdMsg, producerVars, shutdownChan,
                   syncClosed, tickerStopped, producerClosed, clientClosed,
                   drainer, shutdownReturned, historyVars, configVars, faultVars, setup>>

\* onShutdown: tp.producer.Close(), which flushes what the producer still
\* holds and drains its success stream itself before it returns.
ShutdownCloseProducer ==
    /\ pc = "closeProducer"
    /\ prodInput' = {}
    /\ prodSuccess' = <<>>
    /\ producerClosed' = TRUE
    /\ pc' = "closeClient"
    /\ hooks' = 0
    /\ UNCHANGED <<cur, producerMessages, mustCommit, partitionProcessors,
                   consumerVars, shutdownChan, syncClosed, tickerStopped,
                   clientClosed, drainer, shutdownReturned, historyVars,
                   configVars, faultVars, setup>>

\* onShutdown: tp.client.Close(); runLoop returns.
ShutdownCloseClient ==
    /\ pc = "closeClient"
    /\ clientClosed' = TRUE
    /\ pc' = "done"
    /\ hooks' = 0
    /\ UNCHANGED <<cur, producerMessages, mustCommit, partitionProcessors,
                   consumerVars, producerVars, shutdownChan, syncClosed,
                   tickerStopped, producerClosed, drainer, shutdownReturned,
                   historyVars, configVars, faultVars, setup>>

\* The error drainer's range loop ends when the producer closes Errors().
DrainerEnd ==
    /\ drainer = "running"
    /\ producerClosed
    /\ drainer' = "done"
    /\ UNCHANGED <<coordVars, partitionProcessors, consumerVars, producerVars,
                   shutdownChan, syncClosed, tickerStopped, producerClosed,
                   clientClosed, shutdownReturned, historyVars,
                   configVars, faultVars, setup,
                   hooks>>

\* Shutdown(): close(tp.shutdown) ...
ShutdownCall ==
    /\ pc # "idle"
    /\ ~shutdownChan
    /\ shutdownChan' = TRUE
    /\ UNCHANGED <<coordVars, partitionProcessors, consumerVars, producerVars,
                   syncClosed, tickerStopped, producerClosed, clientClosed,
                   drainer, shutdownReturned, historyVars, configVars, faultVars, setup,
                   hooks>>

\* Every task the wait group counts.
AllTasksDone ==
    /\ pc = "done"
    /\ drainer = "done"
    /\ \A s \in Streams : fwd[s] = "exit"

\* ... tp.waitGroup.Wait() returns.
ShutdownReturn ==
    /\ shutdownChan
    /\ ~shutdownReturned
    /\ AllTasksDone
    /\ shutdownReturned' = TRUE
    /\ UNCHANGED <<coordVars, partitionProcessors, consumerVars, producerVars,
                   shutdownChan, syncClosed, tickerStopped, producerClosed,
                   clientClosed, drainer, historyVars, configVars, faultVars, setup,
                   hooks>>

\* ------------------------------------------------------- the producer
\* The log acknowledges a message the producer holds: it goes onto the
\* success stream when that stream has room.
LogAck(pm) ==
    /\ pm \in prodInput
    /\ ~producerClosed
    /\ Len(prodSuccess) < SuccessCap
    /\ prodInput' = prodInput \ {pm}
    /\ prodSuccess' = Append(prodSuccess, pm)
    /\ UNCHANGED <<coordVars, partitionProcessors, consumerVars,
                   shutdownVars, historyVars, configVars, faultVars, setup,
                   hooks>>

\* The log rejects a message the producer holds: the producer delivers the
\* error on Errors().
LogFail(pm) ==
    /\ proc = "running"
    /\ pm \in prodInput
    /\ ~producerClosed
    /\ prodInput' = prodInput \ {pm}
    /\ prodErrors' = prodErrors \cup {pm}
    /\ failedOutputs' = failedOutputs \cup {pm}
    /\ UNCHANGED <<coordVars, partitionProcessors, consumerVars, prodSuccess,
                   shutdownVars, historyVars, configVars, proc, setup, hooks>>

\* A variant of the error handler that logs the error and goes on.
OnProducerErrorLogged(pm) ==
    /\ proc = "running"
    /\ drainer = "running"
    /\ pm \in prodErrors
    /\ prodErrors' = prodErrors \ {pm}
    /\ UNCHANGED <<coordVars, partitionProcessors, consumerVars, producerVars,
                   shutdownVars, historyVars, configVars, proc, failedOutputs,
                   setup, hooks>>

\* for err := range tp.producer.Errors() { tp.onProducerError(err) }: the
\* drainer receives an error and log.Fatal ends the process.
OnProducerError(pm) ==
    /\ proc = "running"
    /\ drainer = "running"
    /\ pm \in prodErrors
    /\ prodErrors' = prodErrors \ {pm}
    /\ proc' = "fatal"
    /\ UNCHANGED <<coordVars, partitionProcessors, consumerVars, producerVars,
                   shutdownVars, historyVars, configVars, failedOutputs,
                   setup, hooks>>

\* ---------------------------------------------------------------- Next
Next ==
    \/ Start
    \/ \E s \in AllStreams : FwdRecv(s)
    \/ \E s \in AllStreams : FwdEnd(s)
    \/ \E s \in AllStreams : FwdSync(s)
    \/ \E s \in AllStreams : RecvConsumer(s)
    \/ \E k \in 0 .. MaxOut, mc \in BOOLEAN : ProcessMessage(k, mc)
    \/ SubmitOutput
    \/ ProcessCompleted
    \/ Commit
    \/ AckInSelect
    \/ AckInReadyWait
    \/ AckInSubmit
    \/ AckInCommitWait
    \/ OnMarkOffsetsTick
    \/ ShutdownCloseSync
    \/ ShutdownStopTicker
    \/ ShutdownQuiesce
    \/ ShutdownCloseProducer
    \/ ShutdownCloseClient
    \/ DrainerEnd
    \/ ShutdownCall
    \/ ShutdownReturn
    \/ \E pm \in prodInput : LogAck(pm)

Spec == Init /\ [][Next]_vars

\* The producer withholds the acks of every output derived from partition 1.
NextStall ==
    \/ Start
    \/ \E s \in AllStreams : FwdRecv(s)
    \/ \E s \in AllStreams : FwdEnd(s)
    \/ \E s \in AllStreams : FwdSync(s)
    \/ \E s \in AllStreams : RecvConsumer(s)
    \/ \E k \in 0 .. MaxOut, mc \in BOOLEAN : ProcessMessage(k, mc)
    \/ SubmitOutput
    \/ ProcessCompleted
    \/ Commit
    \/ AckInSelect
    \/ AckInReadyWait
    \/ AckInSubmit
    \/ AckInCommitWait
    \/ OnMarkOffsetsTick
    \/ ShutdownCloseSync
    \/ ShutdownStopTicker
    \/ ShutdownQuiesce
    \/ ShutdownCloseProducer
    \/ ShutdownCloseClient
    \/ DrainerEnd
    \/ ShutdownCall
    \/ ShutdownReturn
    \/ \E pm \in prodInput : pm.src[2] = 0 /\ LogAck(pm)

SpecStall == Init /\ [][NextStall]_vars

\* The same container consuming two input topics: every partition processor
\* has one consumer stream per topic. On partition 0 the stream of the second
\* topic resumes at its last offset; the streams of partition 1 have nothing
\* left to deliver.
InitTopics ==
    InitWith(TopicIds,
             [s \in AllStreams |->
                IF s[2] = 1 THEN MaxMsgs ELSE IF s[1] = 1 THEN 0 ELSE MaxMsgs - 1])

SpecTopics == InitTopics /\ [][Next]_vars

\* -------------------------------------- the steps of NewTopicProcessor
\* Everything but the construction.
tpVars == <<coordVars, partitionProcessors, consumerVars, producerVars,
            shutdownVars, historyVars, configVars, faultVars, hooks>>

\* if containerID < 0 || containerID >= config.ContainerCount { log.Fatalf }
SetupCheckContainerID ==
    /\ setup.step = "containerID"
    /\ setup' = IF ContainerIDValid(setup.args.containerID)
                THEN [setup EXCEPT !.step = "serdes"]
                ELSE Fatal(setup)
    /\ UNCHANGED tpVars

\* for _, topic := range inputTopics: no entry in TopicSerdes is fatal.
SetupCheckSerdes ==
    /\ setup.step = "serdes"
    /\ setup' = IF \A topic \in inputTopics : topic \in setup.args.serdes
                THEN [setup EXCEPT !.step = "client"]
                ELSE Fatal(setup)
    /\ UNCHANGED tpVars

\* client, err := sarama.NewClient(...)
SetupNewClient ==
    /\ setup.step = "client"
    /\ setup' = IF setup.args.clientOk
                THEN [setup EXCEPT !.step = "partitions", !.client = TRUE]
                ELSE Fatal(setup)
    /\ UNCHANGED tpVars

\* for _, partition := range partitions: no entry in PartitionToContainerID
\* is fatal.
SetupCheckPartitions ==
    /\ setup.step = "partitions"
    /\ setup' = IF \A partition \in setup.args.assigned :
                      partition \in setup.args.mapping
                THEN [setup EXCEPT !.step = "offsetManager"]
                ELSE Fatal(setup)
    /\ UNCHANGED tpVars

\* offsetManager, err := sarama.NewOffsetManagerFromClient(...)
SetupNewOffsetManager ==
    /\ setup.step = "offsetManager"
    /\ setup' = IF setup.args.offsetManagerOk
                THEN [setup EXCEPT !.step = "producer", !.offsetManager = TRUE]
                ELSE Fatal(setup)
    /\ UNCHANGED tpVars

\* producer := mustSetupProducer(...)
MustSetupProducer ==
    /\ setup.step = "producer"
    /\ setup' = IF setup.args.producerOk
                THEN [setup EXCEPT !.step = "processors", !.producer = TRUE]
                ELSE Fatal(setup)
    /\ UNCHANGED tpVars

\* The loop of newPartitionProcessor, then return &topicProcessor.
SetupNewProcessors ==
    /\ setup.step = "processors"
    /\ setup' = [setup EXCEPT !.step = "returned",
                              !.processors = setup.args.assigned]
    /\ UNCHANGED tpVars

NextSetup ==
    \/ SetupCheckContainerID
    \/ SetupCheckSerdes
    \/ SetupNewClient
    \/ SetupCheckPartitions
    \/ SetupNewOffsetManager
    \/ MustSetupProducer
    \/ SetupNewProcessors

\* NewTopicProcessor called with any arguments, for either set of input
\* topics.
InitSetup ==
    /\ \E topics \in {{1}, TopicIds} :
          InitState(topics, [s \in AllStreams |-> 0])
    /\ autoMark
    /\ setup \in {SetupStart(a) : a \in SetupArgs}

SpecSetup == InitSetup /\ [][NextSetup]_vars

\* The log may reject messages; no task takes a step once the process has
\* exited. The consumer streams of partition 1 have nothing left to deliver.
InitErr == InitWith({1}, [s \in AllStreams |-> IF s[2] = 0 THEN 0 ELSE MaxMsgs])

NextErr ==
    \/ proc = "running" /\ Next
    \/ \E pm \in prodInput : LogFail(pm)
    \/ \E pm \in prodErrors : OnProducerError(pm)

SpecErr == InitErr /\ [][NextErr]_vars

\* A run in automatic mode that nobody shuts down, in which every consumer
\* stream delivers its messages, the log acknowledges every output it is
\* given, the timer keeps ticking, and the coordinator's select, which picks
\* among its ready cases at random, does not pass over a case for ever.
AckStep == AckInSelect \/ AckInReadyWait \/ AckInSubmit \/ AckInCommitWait

NextLive ==
    \/ Start
    \/ \E s \in AllStreams : FwdRecv(s)
    \/ \E s \in AllStreams : RecvConsumer(s)
    \/ \E k \in 0 .. MaxOut, mc \in BOOLEAN : ProcessMessage(k, mc)
    \/ SubmitOutput
    \/ ProcessCompleted
    \/ Commit
    \/ AckInSelect
    \/ AckInReadyWait
    \/ AckInSubmit
    \/ AckInCommitWait
    \/ OnMarkOffsetsTick
    \/ \E pm \in prodInput : LogAck(pm)

InitLive == Init /\ autoMark

SpecLive ==
    /\ InitLive
    /\ [][NextLive]_vars
    /\ WF_vars(Start)
    /\ WF_vars(\E s \in AllStreams : FwdRecv(s))
    /\ SF_vars(\E s \in AllStreams : RecvConsumer(s))
    /\ WF_vars(\E k \in 0 .. MaxOut, mc \in BOOLEAN : ProcessMessage(k, mc))
    /\ SF_vars(SubmitOutput)
    /\ WF_vars(ProcessCompleted)
    /\ WF_vars(Commit)
    /\ SF_vars(AckStep)
    /\ SF_vars(OnMarkOffsetsTick /\ partitionProcessors' # partitionProcessors)
    /\ SF_vars(\E pm \in prodInput : LogAck(pm))

\* ------------------------------------------------------------- claims
InProcessed(p, t, o) == \E i \in 1 .. Len(processed[p]) : processed[p][i] = <<t, o>>

\* The groups the partition processors hold, counted where they are kept.
TotalGroups ==
    SumOver([q \in Partitions |-> Len(partitionProcessors[q].groups)], Partitions)

\* C1 (commit safety): whenever offset o is marked for partition p, every
\* input of p with offset <= o has been processed and every output it
\* emitted has had its ack received from the success stream and routed.
CommitSafety ==
    \A p \in Partitions : \A t \in inputTopics : \A o \in Offsets :
        o <= partitionProcessors[p].marked =>
            /\ InProcessed(p, t, o)
            /\ unacked[<<t, p, o>>] = 0

\* A partition has its last offset marked while the other partition still
\* waits for acks.
CommitSafetyWitness ==
    \E p \in Partitions : \E q \in Partitions \ {p} :
        /\ partitionProcessors[p].marked = MaxMsgs - 1
        /\ unacked[<<1, q, 0>>] > 0

\* C2 (backpressure): the in-flight groups of all partition processors
\* together never exceed MaxInFlightMessageGroups; a message is passed to
\* process only in a state where isReadyForMessage holds, and while it does
\* not hold the coordinator stays in its wait.
Backpressure ==
    /\ [](TotalGroups <= MaxInFlightMessageGroups)
    /\ [][processed' # processed =>
            /\ pc = "ready"
            /\ ppIsReadyForMessage(partitionProcessors, cur[2])]_vars
    /\ [][(pc = "ready" /\ ~ppIsReadyForMessage(partitionProcessors, cur[2])) =>
            (pc' = "ready" /\ cur' = cur /\ processed' = processed)]_vars

\* The cap is reached and a message waits for readiness.
BackpressureWitness ==
    /\ TotalGroups = MaxInFlightMessageGroups
    /\ pc = "ready"
    /\ ~ppIsReadyForMessage(partitionProcessors, cur[2])
    /\ \A p \in Partitions : Len(partitionProcessors[p].groups) > 0

\* The coordinator waits: for readiness, for room on the producer's input
\* stream, or for commit readiness.
Waiting ==
    \/ pc = "ready" /\ ~ReadyTest
    \/ pc = "submit" /\ producerMessages # <<>> /\ Cardinality(prodInput) >= InputCap
    \/ pc = "commitWait" /\ ~CommitTest

\* C3 (no deadlock): the coordinator is never in a wait that cannot end:
\* whenever it waits, the producer holds an output the log has yet to
\* acknowledge or an ack is on the success stream.
NoDeadlock == Waiting => (prodInput # {} \/ prodSuccess # <<>>)

\* The offsets passed to Process for partition p, in order.
OffsetsOf(p) == [i \in 1 .. Len(processed[p]) |-> processed[p][i][2]]

\* The offsets of topic t passed to Process for partition p, in order.
OffsetsOfTopic(p, t) ==
    LET keep(x) == x[1] = t
    IN  [i \in 1 .. Len(SelectSeq(processed[p], keep)) |->
            SelectSeq(processed[p], keep)[i][2]]

StrictlyIncreasing(q) == \A i \in 1 .. Len(q) : \A j \in 1 .. Len(q) : i < j => q[i] < q[j]

\* C4 as claimed (processing order): per partition, the offsets passed to
\* Process are strictly increasing, for any number of input topics.
ProcessingOrder == \A p \in Partitions : StrictlyIncreasing(OffsetsOf(p))

\* C4 as amended: per partition and input topic, the offsets passed to
\* Process are strictly increasing.
ProcessingOrderPerTopic ==
    \A p \in Partitions : \A t \in TopicIds : StrictlyIncreasing(OffsetsOfTopic(p, t))

\* A partition processor has been passed every message of both its streams.
ProcessingOrderWitness ==
    /\ Len(OffsetsOfTopic(0, 1)) = MaxMsgs
    /\ Len(OffsetsOfTopic(0, 2)) = 1

Marked(p) == partitionProcessors[p].marked

\* C5 (commit monotonicity): per partition, the offset marked on the offset
\* manager never decreases from one mark to the next.
CommitMonotonic ==
    [][\A p \in Partitions :
          partitionProcessors'[p].marked >= partitionProcessors[p].marked]_vars

\* A partition has an offset marked and a higher one ready for the next mark.
CommitMonotonicWitness ==
    \E p \in Partitions :
        /\ Marked(p) >= 0
        /\ partitionProcessors[p].watermark > Marked(p)

\* Every output of every input of partition p up to offset o has been acked.
AckedUpTo(p, o) ==
    \A t \in inputTopics : \A o2 \in Offsets : o2 <= o => unacked[<<t, p, o2>>] = 0

\* C6 (synchronous commit): the commit a message asked for is made only when
\* every output of every message of its partition up to its offset has been
\* acked, and from the return of process(m) to that commit no other message
\* is passed to Process.
SynchronousCommit ==
    /\ [][(pc = "commitWait" /\ pc' # "commitWait") =>
            /\ ppIsReadyToCommit(partitionProcessors[cur[2]])
            /\ AckedUpTo(cur[2], cur[3])
            /\ partitionProcessors'[cur[2]].marked = cur[3]]_vars
    /\ [][(pc \in {"submit", "commitWait"}) => processed' = processed]_vars

\* The second message of a partition asked for a commit, its own outputs
\* are acked, and the commit waits for an ack of the message before it.
SynchronousCommitWitness ==
    /\ pc = "commitWait"
    /\ cur[3] = 1
    /\ unacked[cur] = 0
    /\ unacked[<<cur[1], cur[2], 0>>] > 0
    /\ ~ppIsReadyToCommit(partitionProcessors[cur[2]])

\* C7 (shutdown termination): once Shutdown() is called it returns, so the
\* system never comes to rest with the call still waiting.
ShutdownTerminates ==
    (shutdownChan /\ ~shutdownReturned) => ENABLED Next

\* C8 (shutdown mid-flight): the handler's steps come in the order close
\* synchroniser, stop ticker, quiesce, close producer, close client; when the
\* producer is closed no submitted output is left unacknowledged by the log;
\* the handler marks no offset, so what is marked covers fully acked inputs
\* only; and no message is processed once the handler has begun.
ShutdownMidFlight ==
    /\ [](clientClosed => producerClosed)
    /\ [](producerClosed => \A s \in AllStreams : consumerClosed[s])
    /\ []((\E s \in AllStreams : consumerClosed[s]) => (tickerStopped = autoMark /\ syncClosed))
    /\ [](tickerStopped => syncClosed)
    /\ [](producerClosed => prodInput = {})
    /\ [](syncClosed => CommitSafety)
    /\ [][syncClosed =>
            /\ processed' = processed
            /\ \A p \in Partitions :
                  partitionProcessors'[p].marked = partitionProcessors[p].marked]_vars

\* The handler has closed the producer while an input's outputs had been
\* submitted and their acks not all routed.
ShutdownMidFlightWitness ==
    /\ producerClosed
    /\ \E m \in AllMsgs : unacked[m] > 0
    /\ \E p \in Partitions : Marked(p) >= 0

\* Partition 0 has a message left to process, or an offset left to mark.
WorkLeft0 ==
    \/ consumerNext[<<1, 0>>] < MaxMsgs
    \/ fwdMsg[<<1, 0>>] # NoMsg
    \/ (autoMark /\ partitionProcessors[0].watermark > Marked(0))

\* The coordinator waits for readiness or for commit readiness.
WaitingForAcks ==
    \/ pc = "ready" /\ ~ReadyTest
    \/ pc = "commitWait" /\ ~CommitTest

\* C9 (multi-partition independence): with the acks of partition 1 withheld,
\* partition 0 keeps being processed and committed: while partition 0 has
\* work left, the coordinator is never in a wait for acks that no ack of
\* partition 0 can end; and the in-flight groups stay within the cap.
Independence ==
    /\ TotalGroups <= MaxInFlightMessageGroups
    /\ (WaitingForAcks /\ WorkLeft0) =>
          \/ \E pm \in prodInput : pm.src[2] = 0
          \/ prodSuccess # <<>>

\* C10 (output submission): while the outputs of a message are submitted,
\* what has been written to the producer's input followed by what is still
\* to be written is what process returned, in its order; onProcessCompleted
\* comes after the last write; no message is processed meanwhile.
OutputSubmission ==
    /\ [](pc = "submit" =>
            /\ submittedCur \o producerMessages = curOut
            /\ \A i \in 1 .. Len(curOut) : curOut[i] = Output(cur, i))
    /\ [][(pc = "submit" /\ pc' # "submit") =>
            (producerMessages = <<>> /\ submittedCur = curOut)]_vars
    /\ [][pc = "submit" => processed' = processed]_vars

\* The first of two outputs is written, its ack has come back and been
\* routed, and the second is still to be written.
OutputSubmissionWitness ==
    /\ pc = "submit"
    /\ Len(curOut) = 2
    /\ Len(submittedCur) = 1
    /\ unacked[cur] = 1

\* C11 (single writer): the state of the partition processors changes only
\* in steps of the coordinator task: such a step leaves the forwarders, the
\* consumer streams, the error drainer and the caller of Shutdown where they
\* are; Process is handed one message at a time, by the coordinator's step
\* from the readiness test to the submission loop; and until
\* onProcessCompleted nothing but the routing of an ack touches a processor.
SingleWriter ==
    /\ [][partitionProcessors' # partitionProcessors =>
            /\ pc \in {"select", "ready", "submit", "commitWait"}
            /\ UNCHANGED <<consumerVars, prodInput, shutdownVars>>]_vars
    /\ [][processed' # processed =>
            /\ pc = "ready" /\ pc' = "submit"
            /\ processed' = [processed EXCEPT
                               ![cur[2]] = Append(@, <<cur[1], cur[3]>>)]]_vars
    /\ [][(pc = "submit" /\ pc' = "submit"
            /\ partitionProcessors' # partitionProcessors) =>
              (prodSuccess # <<>> /\ prodSuccess' = Tail(prodSuccess))]_vars

\* The coordinator is inside processConsumerMessage for a message of a
\* partition while a forwarder of that partition already holds the next
\* message and the error drainer runs.
SingleWriterWitness ==
    /\ pc = "submit"
    /\ drainer = "running"
    /\ \E s \in Streams :
          /\ s[2] = cur[2]
          /\ fwd[s] = "send"
          /\ fwdMsg[s][3] = cur[3] + 1

\* C12 (commit hook before every mark): a step that changes the marked offset
\* of any partition is a step of a handler that invoked MarkOffsetsHook, once,
\* before it marked, and that step neither processes a message nor routes an
\* ack.
HookBeforeMark ==
    [][(\E p \in Partitions : partitionProcessors'[p].marked # Marked(p)) =>
         /\ hooks' = 1
         /\ processed' = processed
         /\ unacked' = unacked
         /\ prodSuccess' = prodSuccess]_vars

\* In manual mode the handler that ran last invoked the hook and marked the
\* last offset of a partition.
HookBeforeMarkWitness ==
    /\ ~autoMark
    /\ hooks = 1
    /\ pc = "select"
    /\ \E p \in Partitions : Marked(p) = MaxMsgs - 1

\* Every input of every partition was processed, every output was acked and
\* the ack routed, and the marked offset of every partition is that of its
\* last input.
AllCommitted ==
    /\ \A p \in Partitions : Len(processed[p]) = MaxMsgs
    /\ \A m \in AllMsgs : unacked[m] = 0
    /\ \A p \in Partitions : Marked(p) = MaxMsgs - 1

\* C13 (eventual commit in automatic mode): when the inputs of every
\* partition are delivered, the log acks every output and the timer keeps
\* ticking, eventually every input is processed, every output acked and the
\* marked offset of every partition covers all its inputs.
EventualCommit == <>AllCommitted

\* The coordinator handles a tick: it stays in its select, receives nothing
\* from the success stream, and invokes the hook or changes a processor.
TickStep ==
    /\ pc = "select"
    /\ pc' = "select"
    /\ prodSuccess' = prodSuccess
    /\ \/ partitionProcessors' # partitionProcessors
       \/ hooks' \notin {0, hooks}

\* C14 (commit-timer tick): a tick is handled only in automatic mode; handling
\* it invokes the hook once and calls onMarkOffsetsTick on every partition
\* processor, which marks the partition's watermark and nothing beyond it; in
\* manual mode an offset is marked only by the mustCommit path, for the
\* partition of the message being processed.
TickHandling ==
    /\ [][TickStep =>
            /\ autoMark
            /\ hooks' = 1
            /\ \A p \in Partitions :
                  /\ partitionProcessors'[p] =
                       ppOnMarkOffsetsTick(partitionProcessors[p])
                  /\ partitionProcessors'[p].marked =
                       partitionProcessors[p].watermark]_vars
    /\ [][(~autoMark /\ \E p \in Partitions :
                          partitionProcessors'[p].marked # Marked(p)) =>
            /\ pc = "commitWait"
            /\ \A p \in Partitions \ {cur[2]} :
                  partitionProcessors'[p].marked = Marked(p)]_vars

\* In automatic mode, after the first input of each partition was processed
\* without a commit request, the handler that ran last invoked the hook and
\* both partitions have their first offset marked.
TickHandlingWitness ==
    /\ autoMark
    /\ hooks = 1
    /\ pc = "select"
    /\ \A p \in Partitions : Len(processed[p]) = 1 /\ Marked(p) = 0

\* C15 (producer errors are fatal): the step in which the error drainer
\* receives an error ends the process, wherever the coordinator stands; once
\* the process has ended no input is processed and no offset marked; the
\* offsets marked before satisfy commit safety, and the offset of the input
\* of a failed output is not marked.
ProducerErrorsFatal ==
    /\ [][(prodErrors' # prodErrors /\ prodErrors' \subseteq prodErrors) =>
            proc' = "fatal"]_vars
    /\ [][proc = "fatal" =>
            UNCHANGED <<processed, partitionProcessors, pc>>]_vars
    /\ []CommitSafety
    /\ [](\A pm \in failedOutputs : Marked(pm.src[2]) < pm.src[3])

\* The process was ended by an error while the coordinator waited in the
\* mustCommit loop for the acks of the second input of a partition, one of
\* whose outputs failed; the first offset of that partition is marked.
ProducerErrorsFatalWitness ==
    /\ proc = "fatal"
    /\ pc = "commitWait"
    /\ cur[3] = 1
    /\ \E pm \in failedOutputs : pm.src = cur
    /\ Marked(cur[2]) = 0

\* One of the conditions the construction must not survive.
SetupError ==
    \/ setup.args.containerID < 0
    \/ setup.args.containerID >= ContainerCount
    \/ \E topic \in inputTopics : topic \notin setup.args.serdes
    \/ \E partition \in setup.args.assigned : partition \notin setup.args.mapping
    \/ ~setup.args.clientOk
    \/ ~setup.args.offsetManagerOk
    \/ ~setup.args.producerOk

\* C16 (setup errors abort construction): with a container id outside
\* [0, ContainerCount), an input topic without Serde, an assigned partition
\* without mapping, or a client, offset manager or producer that cannot be
\* created, NewTopicProcessor never returns and never creates a partition
\* processor, and it stops only in a fatal error; the client is created only
\* after the container id and the Serdes were found in order.
SetupErrorsAbort ==
    /\ SetupError =>
          /\ setup.step # "returned"
          /\ setup.processors = {}
          /\ setup.step = "fatal" \/ ENABLED NextSetup
    /\ setup.client =>
          /\ setup.args.containerID \in 0 .. (ContainerCount - 1)
          /\ inputTopics \subseteq setup.args.serdes

\* The construction ended in a fatal error at its last check, the creation
\* of the producer, with the client and the offset manager created.
SetupErrorsAbortWitness ==
    /\ setup.step = "fatal"
    /\ setup.client
    /\ setup.offsetManager
    /\ ~setup.args.producerOk
    /\ setup.args.assigned # {}

AckReceived ==
    /\ pc \in {"select", "ready", "submit", "commitWait"}
    /\ prodSuccess # <<>>
    /\ prodSuccess' = Tail(prodSuccess)

\* C18 (ack routing): an ack received in any of the four places is handed,
\* once, to the processor of the partition of the input message its Metadata
\* names, and changes no other processor; handling a receive from the closed
\* success stream changes no processor.
AckRouting ==
    /\ [][AckReceived =>
            LET pm == Head(prodSuccess)
            IN  /\ partitionProcessors'[pm.src[2]] =
                     ppOnProducerAck(partitionProcessors[pm.src[2]], pm)
                /\ \A q \in Partitions \ {pm.src[2]} :
                      partitionProcessors'[q] = partitionProcessors[q]
                /\ unacked' = [unacked EXCEPT ![pm.src] = @ - 1]
                /\ UNCHANGED <<processed, pc, cur, producerMessages>>]_vars
    /\ [](\A m \in AllMsgs : \A i \in 1 .. MaxOut :
            OnProducerAckMore(partitionProcessors, Output(m, i), FALSE) =
              partitionProcessors)

\* While the coordinator submits the outputs of a message of one partition,
\* a message of the other partition has had the ack of its first output
\* routed to its group and its second output is still with the producer.
AckRoutingWitness ==
    /\ pc = "submit"
    /\ \E m \in AllMsgs :
          /\ m[2] # cur[2]
          /\ Output(m, 2) \in prodInput
          /\ unacked[m] = 1
          /\ \E i \in 1 .. Len(partitionProcessors[m[2]].groups) :
                /\ partitionProcessors[m[2]].groups[i].offset = m[3]
                /\ partitionProcessors[m[2]].groups[i].outstanding = 1

\* Every group a processor holds has had onProcessCompleted called.
AllCompleted ==
    \A p \in Partitions :
        partitionProcessors[p].inFlightCount = Len(partitionProcessors[p].groups)

\* C19 (timer and shutdown only between iterations): outside the mustCommit
\* path the hook is invoked and offsets are marked only from the top-level
\* select, with no message in processing; between pp.process and
\* pp.onProcessCompleted no offset is marked and no group removed; and every
\* step of the shutdown handler finds no message in processing, every output
\* written and onProcessCompleted called for every group.
BetweenIterations ==
    /\ [][(/\ pc # "commitWait"
            /\ \/ hooks' \notin {0, hooks}
               \/ \E p \in Partitions : partitionProcessors'[p].marked # Marked(p)) =>
              (pc = "select" /\ cur = NoMsg /\ producerMessages = <<>>)]_vars
    /\ [][pc = "submit" =>
            \A p \in Partitions :
               /\ partitionProcessors'[p].marked = Marked(p)
               /\ Len(partitionProcessors'[p].groups) =
                    Len(partitionProcessors[p].groups)]_vars
    /\ [][(\/ syncClosed' # syncClosed
            \/ tickerStopped' # tickerStopped
            \/ consumerClosed' # consumerClosed
            \/ producerClosed' # producerClosed
            \/ clientClosed' # clientClosed) =>
              /\ pc \in {"select", "stopTicker", "quiesce", "closeProducer",
                          "closeClient"}
              /\ cur = NoMsg
              /\ producerMessages = <<>>
              /\ curOut = <<>>
              /\ AllCompleted]_vars

\* The shutdown handler has begun in automatic mode: an offset was marked,
\* and a group whose processing completed still waits for an ack.
BetweenIterationsWitness ==
    /\ pc = "stopTicker"
    /\ autoMark
    /\ \E p \in Partitions : Marked(p) >= 0
    /\ \E p \in Partitions : partitionProcessors[p].inFlightCount > 0
    /\ \E m \in AllMsgs : unacked[m] > 0

\* The groups of partition p recorded for input message m.
GroupsOf(m) ==
    {i \in 1 .. Len(partitionProcessors[m[2]].groups) :
        /\ partitionProcessors[m[2]].groups[i].topic = m[1]
        /\ partitionProcessors[m[2]].groups[i].offset = m[3]}

\* C20 (ack accounting): the counter of every group is the number of outputs
\* of its input whose ack was not yet routed, and is never negative; while
\* the outputs of a message are submitted, and for every output the producer
\* or the success stream holds, the group exists with a positive counter; an
\* ack received finds its group and lowers that group's counter by one, also
\* while later outputs of the same input are still being submitted.
AckAccounting ==
    /\ [](\A p \in Partitions : \A i \in 1 .. Len(partitionProcessors[p].groups) :
            LET g == partitionProcessors[p].groups[i]
            IN  /\ g.outstanding >= 0
                /\ g.outstanding = unacked[<<g.topic, p, g.offset>>])
    /\ [](pc = "submit" =>
            /\ Cardinality(GroupsOf(cur)) = 1
            /\ \A i \in GroupsOf(cur) :
                  partitionProcessors[cur[2]].groups[i].outstanding
                    >= Len(producerMessages))
    /\ [](\A pm \in prodInput \cup {prodSuccess[j] : j \in 1 .. Len(prodSuccess)} :
            \E i \in GroupsOf(pm.src) :
               partitionProcessors[pm.src[2]].groups[i].outstanding > 0)
    /\ [][AckReceived =>
            \E i \in GroupsOf(Head(prodSuccess).src) :
               LET p == Head(prodSuccess).src[2]
               IN  /\ partitionProcessors[p].groups[i].outstanding > 0
                   /\ partitionProcessors'[p].groups[i].outstanding =
                        partitionProcessors[p].groups[i].outstanding - 1]_vars

\* The ack of the first output of the message in submission was routed to
\* its group while its second output was still to be written.
AckAccountingWitness ==
    /\ pc = "submit"
    /\ Len(curOut) = 2
    /\ Len(producerMessages) = 1
    /\ prodInput = {}
    /\ prodSuccess = <<>>
    /\ \A i \in GroupsOf(cur) :
          partitionProcessors[cur[2]].groups[i].outstanding = 1

====
